---------------------------- MODULE Spec2Model ----------------------------
(***************************************************************************)
(* Model of src/main.py (ubxview): the GNGGA validation / parsing          *)
(* pipeline, the batch load loop, the backward "last valid position" scan  *)
(* and the live-mode polling loop with its bounded trajectory window.      *)
(*                                                                         *)
(* Text is modelled as text: a line is a TLA+ string, split(','), strip(), *)
(* startswith(), endswith() and float() are computed character by          *)
(* character.  Numbers are fixed point:                                    *)
(*   - a float() result is an integer number of thousandths (the lines of  *)
(*     the model carry at most three decimals, so the scaling is exact);   *)
(*   - a converted coordinate is an integer number of 1/60000 degree       *)
(*     (thousandths of an arc minute): deg + minutes/60 is exactly         *)
(*     (deg*60000 + minutes*1000) / 60000;                                 *)
(*   - altitudes and planar offsets are millimetres.                       *)
(***************************************************************************)
EXTENDS Integers, Sequences, FiniteSets, TLC

VARIABLES
    file,            \* the log file: [exists, raw_lines] (decoded text lines, in file order)
    pc,              \* position of the module-level script / of the caller
    lines,           \* main.py:174  lines = read_latest_gnss_data(filename)
    idx,             \* position of the "for line in lines" loop (1-based)
    line,            \* main.py:180  the line last handed to parse_gngga
    parsed,          \* main.py:181  parsed = parse_gngga(line)
    positions,       \* main.py:177
    skipped_count,   \* main.py:178
    latest_pos,      \* result of get_last_valid_position(filename)
    last_file_size,  \* main.py:360
    live_path_x,     \* main.py:357
    live_path_y,     \* main.py:358
    live_path_z,     \* main.py:359
    size_checks,     \* number of os.path.getsize calls so far (saturating at MaxChecks)
    sleeps,          \* number of time.sleep calls so far
    last_poll,       \* the path the last loop iteration took since the file last
                     \* changed ("none": no iteration since)
    appends          \* number of points appended to the live path so far
                     \* (saturating at MAX_PATH + 1)

batchVars == <<lines, idx, line, parsed, positions, skipped_count, latest_pos>>
liveVars == <<last_file_size, live_path_x, live_path_y, live_path_z, size_checks, sleeps,
             last_poll, appends>>
vars == <<file, pc, batchVars, liveVars>>

---------------------------------------------------------------------------
(* Bounds of the model.                                                    *)

\* most lines in a batch-mode file
MaxLines == 3
\* in live mode the logged position varies only while the window holds fewer
\* points than this; afterwards the receiver reports the observer's position
MaxVaried == 1
\* size_checks saturates here
MaxChecks == 2
\* a coordinate difference saturates at this many 1/60000 degree (about 2 km
\* north, 1.6 km east) before it is scaled: the products stay within 32 bits,
\* and the offset stays beyond MAX_OFFSET
MaxDelta == 1100

---------------------------------------------------------------------------
(* Program constants.                                                      *)

\* main.py:10  OBSERVER_LAT = 39.1961 degrees, in 1/60000 degree
OBSERVER_LAT == 2351766
\* main.py:11  OBSERVER_LON = -77.2568 degrees, in 1/60000 degree
OBSERVER_LON == -4635408
\* main.py:12  OBSERVER_ALT = 130.0 m, in millimetres
OBSERVER_ALT == 130000
\* main.py:388  the live path keeps the last 1000 points
MAX_PATH == 1000
\* main.py:378  abs(x) > 1000, abs(y) > 1000: metres, in millimetres
MAX_OFFSET == 1000000
\* main.py:378  abs(z) > 100: metres, in millimetres
MAX_Z_OFFSET == 100000
\* main.py:70  pi / 180 * R: micrometres north per 1/60000 degree of latitude
NORTH_UM == 1853249
\* main.py:69  pi / 180 * R * cos(OBSERVER_LAT): micrometres east per 1/60000
\* degree of longitude
EAST_UM == 1436245
\* main.py:101  len(line) > 50
MIN_LINE_LEN == 50
\* main.py:121  len(parts) < 15
MIN_FIELDS == 15

---------------------------------------------------------------------------
(* Python string primitives.  (The double quote, the backslash and the     *)
(* back quote are left out of PRINTABLE: no line of the model has one.)    *)

Char(s, i) == SubSeq(s, i, i)

WHITESPACE == {" ", "\t", "\n", "\r", "\f"}

PRINTABLE ==
    LET p == " !#$%&'()*+,-./0123456789:;<=>?@ABCDEFGHIJKLMNOPQRSTUVWXYZ[]^_abcdefghijklmnopqrstuvwxyz{|}~"
    IN  {Char(p, i) : i \in 1..Len(p)}

startswith(s, p) == Len(s) >= Len(p) /\ SubSeq(s, 1, Len(p)) = p

endswith(s, p) == Len(s) >= Len(p) /\ SubSeq(s, Len(s) - Len(p) + 1, Len(s)) = p

RECURSIVE lstrip(_)
lstrip(s) ==
    IF Len(s) > 0 /\ Char(s, 1) \in WHITESPACE THEN lstrip(SubSeq(s, 2, Len(s))) ELSE s

RECURSIVE rstrip(_)
rstrip(s) ==
    IF Len(s) > 0 /\ Char(s, Len(s)) \in WHITESPACE
    THEN rstrip(SubSeq(s, 1, Len(s) - 1)) ELSE s

strip(s) == rstrip(lstrip(s))

\* s.split(','): the fields between the commas, as a 1-based sequence
Commas(s) == {i \in 1..Len(s) : Char(s, i) = ","}

FirstOf(C) == CHOOSE m \in C : \A x \in C : m <= x

RECURSIVE SplitFrom(_, _, _)
\* the field that ends at comma m, then the fields after it
SplitNext(s, start, C, m) == <<SubSeq(s, start, m - 1)>> \o SplitFrom(s, m + 1, C \ {m})

\* the fields of s from position start on; C: the commas from start on
SplitFrom(s, start, C) ==
    IF C = {} THEN <<SubSeq(s, start, Len(s))>> ELSE SplitNext(s, start, C, FirstOf(C))

split(s) == SplitFrom(s, 1, Commas(s))

\* Python's parts[k] (0-based) of a split line
Part(parts, k) == parts[k + 1]

---------------------------------------------------------------------------
(* float(text), in thousandths.  [ok |-> FALSE] is ValueError; nan is the  *)
(* not-a-number value, which float("NaN") returns without raising.         *)

DigitVal ==
    ("0" :> 0) @@ ("1" :> 1) @@ ("2" :> 2) @@ ("3" :> 3) @@ ("4" :> 4) @@
    ("5" :> 5) @@ ("6" :> 6) @@ ("7" :> 7) @@ ("8" :> 8) @@ ("9" :> 9)

DIGITS == DOMAIN DigitVal

IsDigit(c) == c \in DIGITS

AllDigits(s) == \A i \in 1..Len(s) : IsDigit(Char(s, i))

RECURSIVE IntOf(_)
IntOf(s) == IF Len(s) = 0 THEN 0
            ELSE 10 * IntOf(SubSeq(s, 1, Len(s) - 1)) + DigitVal[Char(s, Len(s))]

\* the fraction digits scaled to thousandths
FracOf(s) == LET t == SubSeq(s \o "000", 1, 3) IN IntOf(t)

FloatErr == [ok |-> FALSE, nan |-> FALSE, v |-> 0]

\* the digits before and after the decimal point
FloatValue(neg, ip, fp) ==
    IF Len(ip) + Len(fp) = 0 \/ ~AllDigits(ip) \/ ~AllDigits(fp) THEN FloatErr
    ELSE [ok |-> TRUE, nan |-> FALSE,
          v |-> (IF neg THEN -1 ELSE 1) * (IntOf(ip) * 1000 + FracOf(fp))]

\* dot: the place of the decimal point, Len(body) + 1 when there is none
FloatSplit(neg, body, dot) ==
    FloatValue(neg, SubSeq(body, 1, dot - 1), SubSeq(body, dot + 1, Len(body)))

FloatDots(neg, body, dots) ==
    IF Cardinality(dots) > 1 THEN FloatErr
    ELSE FloatSplit(neg, body, IF dots = {} THEN Len(body) + 1 ELSE CHOOSE i \in dots : TRUE)

FloatBody(neg, body) ==
    IF body \in {"nan", "NaN", "NAN"} THEN [ok |-> TRUE, nan |-> TRUE, v |-> 0]
    ELSE FloatDots(neg, body, {i \in 1..Len(body) : Char(body, i) = "."})

FloatStripped(t) ==
    FloatBody(Len(t) > 0 /\ Char(t, 1) = "-",
              IF Len(t) > 0 /\ Char(t, 1) \in {"-", "+"} THEN SubSeq(t, 2, Len(t)) ELSE t)

\* float(text) for the texts of the model: an optional sign, digits with an
\* optional decimal point, or a spelling of nan (no exponent, no inf)
float(text) == FloatStripped(strip(text))

\* lo <= x <= hi on floats: every comparison with nan is false
Between(lo, x, hi) == ~x.nan /\ lo <= x.v /\ x.v <= hi

\* int(x): truncation toward zero
Trunc(a, b) == IF a >= 0 THEN a \div b ELSE -((-a) \div b)

---------------------------------------------------------------------------
(* The validator and the parser.                                           *)

PREFIX == "$GNGGA"

\* main.py:132 / main.py:35  "not lat_raw or not lat_dir or ..."
AnyEmpty(parts) ==
    \/ Part(parts, 2) = ""
    \/ Part(parts, 3) = ""
    \/ Part(parts, 4) = ""
    \/ Part(parts, 5) = ""
    \/ Part(parts, 9) = ""

\* ValidValues without the zero test of main.py:142
ValidValues_nozero(lat_val, lon_val, alt_val) ==
    IF ~lat_val.ok \/ ~lon_val.ok \/ ~alt_val.ok THEN FALSE
    ELSE IF ~Between(0, lat_val, 9000000) THEN FALSE
    ELSE IF ~Between(0, lon_val, 18000000) THEN FALSE
    ELSE IF ~Between(-1000000, alt_val, 10000000) THEN FALSE
    ELSE TRUE

\* main.py:142-148
ValidValues(lat_val, lon_val, alt_val) ==
    IF ~lat_val.ok \/ ~lon_val.ok \/ ~alt_val.ok THEN FALSE
    ELSE IF (~lat_val.nan /\ lat_val.v = 0) \/ (~lon_val.nan /\ lon_val.v = 0) THEN FALSE
    ELSE IF ~Between(0, lat_val, 9000000) THEN FALSE
    ELSE IF ~Between(0, lon_val, 18000000) THEN FALSE
    ELSE IF ~Between(-1000000, alt_val, 10000000) THEN FALSE
    ELSE TRUE

\* main.py:121-139
ValidParts(parts) ==
    IF Len(parts) < MIN_FIELDS THEN FALSE
    ELSE IF AnyEmpty(parts) THEN FALSE
    ELSE ValidValues(float(Part(parts, 2)), float(Part(parts, 4)), float(Part(parts, 9)))

is_valid_gngga_line(l) ==
    IF ~startswith(l, PREFIX) THEN FALSE ELSE ValidParts(split(l))

\* ConvertDeg with the sign flipped for the southern hemisphere only
ConvertDeg_south_only(coord_val, deg, direction) ==
    IF direction = "S"
    THEN (deg * 60000 + (coord_val - deg * 100000)) * (-1)
    ELSE deg * 60000 + (coord_val - deg * 100000)

\* main.py:41-45, on the value in thousandths; the result is in 1/60000 degree
ConvertDeg(coord_val, deg, direction) ==
    IF direction \in {"S", "W"}
    THEN (deg * 60000 + (coord_val - deg * 100000)) * (-1)
    ELSE deg * 60000 + (coord_val - deg * 100000)

\* main.py:39-40; [ok |-> FALSE] is the ValueError of float(coord) or int(nan)
ConvertVal(coord_val, direction) ==
    IF ~coord_val.ok \/ coord_val.nan THEN [ok |-> FALSE, v |-> 0]
    ELSE [ok |-> TRUE, v |-> ConvertDeg(coord_val.v, Trunc(coord_val.v, 100000), direction)]

convert(coord, direction) == ConvertVal(float(coord), direction)

None == [ok |-> FALSE, utc_time |-> "", latitude |-> 0, longitude |-> 0, altitude |-> 0]

\* MakeFix without the bounds on the converted coordinates
MakeFix_nobounds(utc_time, latitude, longitude, altitude) ==
    IF ~latitude.ok \/ ~longitude.ok \/ ~altitude.ok THEN None
    ELSE [ok |-> TRUE, utc_time |-> utc_time, latitude |-> latitude.v,
          longitude |-> longitude.v, altitude |-> altitude.v]

\* main.py:52-59
MakeFix(utc_time, latitude, longitude, altitude) ==
    IF ~latitude.ok \/ ~longitude.ok \/ ~altitude.ok THEN None
    ELSE IF ~(-5400000 <= latitude.v /\ latitude.v <= 5400000) THEN None
    ELSE IF ~(-10800000 <= longitude.v /\ longitude.v <= 10800000) THEN None
    ELSE IF ~Between(-1000000, altitude, 10000000) THEN None
    ELSE [ok |-> TRUE, utc_time |-> utc_time, latitude |-> latitude.v,
          longitude |-> longitude.v, altitude |-> altitude.v]

\* main.py:24-49
ParseParts(parts) ==
    IF Len(parts) < 10 \/ ~endswith(Part(parts, 0), "GGA") THEN None
    ELSE IF AnyEmpty(parts) THEN None
    ELSE MakeFix(Part(parts, 1),
                 convert(Part(parts, 2), Part(parts, 3)),
                 convert(Part(parts, 4), Part(parts, 5)),
                 float(Part(parts, 9)))

parse_gngga(l) ==
    IF ~is_valid_gngga_line(l) THEN None ELSE ParseParts(split(l))

---------------------------------------------------------------------------
(* The reader.  The file is its decoded text lines (the encoding cascade   *)
(* of main.py:78-94 is not modelled); a missing file reads as no lines.    *)

\* main.py:103  ord(c) < 128 and (c.isprintable() or c.isspace())
CLEAN == PRINTABLE \cup WHITESPACE

\* main.py:101-103, on a stripped line
KeepLine(l) ==
    /\ startswith(l, PREFIX)
    /\ Len(l) > MIN_LINE_LEN
    /\ \A i \in 1..Len(l) : Char(l, i) \in CLEAN

\* main.py:101-104
KeepIf(l) == IF KeepLine(l) THEN <<l>> ELSE <<>>

RECURSIVE FilterLines(_)
FilterLines(raw) ==
    IF raw = <<>> THEN <<>>
    ELSE KeepIf(strip(Head(raw))) \o FilterLines(Tail(raw))

read_latest_gnss_data(f) ==
    IF ~f.exists THEN <<>> ELSE FilterLines(f.raw_lines)

\* main.py:163-168  for line in reversed(lines)
RECURSIVE ScanBack(_, _)
\* ScanStep returning whatever the parser returned
ScanStep_stop(ls, i, p) == p

\* main.py:166-167  "if parsed: return parsed", else the loop goes on
ScanStep(ls, i, p) == IF p.ok THEN p ELSE ScanBack(ls, i - 1)

ScanBack(ls, i) ==
    IF i = 0 THEN None
    ELSE IF is_valid_gngga_line(ls[i]) THEN ScanStep(ls, i, parse_gngga(ls[i]))
    ELSE ScanBack(ls, i - 1)

\* ResolveLines starting one line too early
ResolveLines_skiplast(ls) == IF ls = <<>> THEN None ELSE ScanBack(ls, Len(ls) - 1)

\* main.py:159-168
ResolveLines(ls) == IF ls = <<>> THEN None ELSE ScanBack(ls, Len(ls))

get_last_valid_position(f) == ResolveLines(read_latest_gnss_data(f))

---------------------------------------------------------------------------
(* The lines a log file of the model is made of.                           *)

\* the example sentence of the documentation: the observer's own position
L_EX == "$GNGGA,123456.00,3911.766,N,07715.408,W,1,08,0.9,130.0,M,46.9,M,,*47"
\* a second good sentence, southern and eastern hemispheres, written
\* between blanks and a carriage return
L_SE == "  $GNGGA,123457.00,3911.770,S,07715.400,E,1,08,0.9,131.5,M,46.9,M,,*4A\r"
\* raw latitude 8999: 89 degrees and 99 minutes
L_MIN60 == "$GNGGA,123458.00,8999.000,N,07715.408,W,1,08,0.9,130.0,M,46.9,M,,*4B"
\* altitude is the text NaN
L_NAN == "$GNGGA,123459.00,3911.766,N,07715.408,W,1,08,0.9,NaN,M,46.9,M,,*4C"
\* raw latitude zero
L_ZERO == "$GNGGA,123500.00,0000.000,N,07715.408,W,1,08,0.9,130.0,M,46.9,M,,*4D"
\* what a receiver without a fix logs: short, empty fields
L_NOFIX == "$GNGGA,,,,,,0,00,99.99,,,,,,*56"
\* another talker's sentence
L_GP == "$GPGGA,123456.00,3911.766,N,07715.408,W,1,08,0.9,130.0,M,46.9,M,,*47"
\* a good sentence with one non-ASCII character
L_NONASCII == "$GNGGA,123501.00,3911.766,N,07715.408,W,1,08,0.9,130.0,M,46.9,M,,*4é"

LineSet == {L_EX, L_SE, L_MIN60, L_NAN, L_ZERO, L_NOFIX, L_GP, L_NONASCII}

SeqsUpTo(S, n) == UNION {[1..k -> S] : k \in 0..n}

MissingFile == [exists |-> FALSE, raw_lines |-> <<>>]

BatchFiles == {MissingFile} \cup {[exists |-> TRUE, raw_lines |-> r] : r \in SeqsUpTo(LineSet, MaxLines)}

---------------------------------------------------------------------------
(* Batch mode: the module-level script, and direct calls of the resolver   *)
(* and of the parser.                                                      *)

InitVars ==
    /\ pc = "start"
    /\ lines = <<>>
    /\ idx = 1
    /\ line = ""
    /\ parsed = None
    /\ positions = <<>>
    /\ skipped_count = 0
    /\ latest_pos = None
    /\ last_file_size = 0
    /\ live_path_x = <<>>
    /\ live_path_y = <<>>
    /\ live_path_z = <<>>
    /\ size_checks = 0
    /\ sleeps = 0
    /\ last_poll = "none"
    /\ appends = 0

Init == file \in BatchFiles /\ InitVars

\* main.py:174-178
LoadFile ==
    /\ pc = "start"
    /\ lines' = read_latest_gnss_data(file)
    /\ idx' = 1
    /\ positions' = <<>>
    /\ skipped_count' = 0
    /\ pc' = "parse"
    /\ UNCHANGED <<file, line, parsed, latest_pos, liveVars>>

\* ParseLine leaving the loop on the first line that does not parse
ParseLine_break ==
    /\ pc = "parse"
    /\ idx <= Len(lines)
    /\ line' = lines[idx]
    /\ parsed' = parse_gngga(lines[idx])
    /\ IF parsed'.ok
       THEN positions' = Append(positions, parsed') /\ skipped_count' = skipped_count
            /\ idx' = idx + 1
       ELSE positions' = positions /\ skipped_count' = skipped_count + 1
            /\ idx' = Len(lines) + 1
    /\ UNCHANGED <<file, pc, lines, latest_pos, liveVars>>

\* ParseLine that does not count the lines it skips
ParseLine_nocount ==
    /\ pc = "parse"
    /\ idx <= Len(lines)
    /\ line' = lines[idx]
    /\ parsed' = parse_gngga(lines[idx])
    /\ IF parsed'.ok
       THEN positions' = Append(positions, parsed')
       ELSE positions' = positions
    /\ skipped_count' = skipped_count
    /\ idx' = idx + 1
    /\ UNCHANGED <<file, pc, lines, latest_pos, liveVars>>

\* main.py:180-185, one iteration
ParseLine ==
    /\ pc = "parse"
    /\ idx <= Len(lines)
    /\ line' = lines[idx]
    /\ parsed' = parse_gngga(lines[idx])
    /\ IF parsed'.ok
       THEN positions' = Append(positions, parsed') /\ skipped_count' = skipped_count
       ELSE positions' = positions /\ skipped_count' = skipped_count + 1
    /\ idx' = idx + 1
    /\ UNCHANGED <<file, pc, lines, latest_pos, liveVars>>

\* main.py:187-192, the loop is over
LoadDone ==
    /\ pc = "parse"
    /\ idx > Len(lines)
    /\ pc' = IF positions = <<>> THEN "exit" ELSE "loaded"
    /\ UNCHANGED <<file, batchVars, liveVars>>

\* a call of get_last_valid_position(filename)
LatestValid ==
    /\ pc = "start"
    /\ latest_pos' = get_last_valid_position(file)
    /\ pc' = "resolved"
    /\ UNCHANGED <<file, lines, idx, line, parsed, positions, skipped_count, liveVars>>

\* a call of parse_gngga on raw line k of the file, as it stands in the file
ParseRaw(k) ==
    /\ pc = "start"
    /\ k \in 1..Len(file.raw_lines)
    /\ line' = file.raw_lines[k]
    /\ parsed' = parse_gngga(file.raw_lines[k])
    /\ pc' = "called"
    /\ UNCHANGED <<file, lines, idx, positions, skipped_count, latest_pos, liveVars>>

Next ==
    \/ LoadFile
    \/ ParseLine
    \/ LoadDone
    \/ LatestValid
    \/ \E k \in 1..MaxLines : ParseRaw(k)

Spec == Init /\ [][Next]_vars

---------------------------------------------------------------------------
(* Live mode: live_gnss_playback, one action per iteration of its          *)
(* "while True" loop, and the receiver rewriting the log between           *)
(* iterations.  time.sleep(update_interval) (main.py:457) is indented as   *)
(* the statement after the while loop, inside the outer try: the loop      *)
(* never ends normally and KeyboardInterrupt leaves the try block, so no   *)
(* step of the program executes it and sleeps keeps its initial value.     *)

\* a good sentence a few metres north-east of the observer, as long as L_EX
L_NEAR == "$GNGGA,123505.00,3911.770,N,07715.400,W,1,08,0.9,131.5,M,46.9,M,,*48"

\* a good sentence at the observer's place, 370 m above it, as long as L_EX
L_HIGH == "$GNGGA,123506.00,3911.766,N,07715.408,W,1,08,0.9,500.0,M,46.9,M,,*49"

File(r) == [exists |-> TRUE, raw_lines |-> r]

LiveFiles ==
    {MissingFile, File(<<>>), File(<<L_NOFIX>>), File(<<L_EX>>), File(<<L_NEAR>>),
     File(<<L_SE>>), File(<<L_HIGH>>), File(<<L_EX, L_NOFIX>>)}

\* os.path.getsize: every line and its newline, one byte per character
RECURSIVE FileSize(_)
FileSize(raw) == IF raw = <<>> THEN 0 ELSE Len(Head(raw)) + 1 + FileSize(Tail(raw))

Abs(a) == IF a < 0 THEN -a ELSE a

Saturated(d) == IF d > MaxDelta THEN MaxDelta ELSE IF d < -MaxDelta THEN -MaxDelta ELSE d

\* main.py:67-71, called with the observer as (lat0, lon0): <<x, y>> in mm
geo_to_xy(lat0, lon0, lat, lon) ==
    <<Trunc(Saturated(lon - lon0) * EAST_UM, 1000),
      Trunc(Saturated(lat - lat0) * NORTH_UM, 1000)>>

\* Trim keeping the oldest MAX_PATH points
Trim_newest(path) ==
    IF Len(path) > MAX_PATH THEN SubSeq(path, 1, MAX_PATH) ELSE path

\* main.py:388-391  path[-1000:]
Trim(path) ==
    IF Len(path) > MAX_PATH THEN SubSeq(path, Len(path) - MAX_PATH + 1, Len(path))
    ELSE path

\* PollPoint without the limit on the vertical offset
PollPoint_flat(xy, z) ==
    IF Abs(xy[1]) > MAX_OFFSET \/ Abs(xy[2]) > MAX_OFFSET
    THEN /\ last_poll' = "unreasonable"
         /\ UNCHANGED <<live_path_x, live_path_y, live_path_z, appends>>
    ELSE /\ last_poll' = "appended"
         /\ appends' = IF appends <= MAX_PATH THEN appends + 1 ELSE appends
         /\ live_path_x' = Trim(Append(live_path_x, xy[1]))
         /\ live_path_y' = Trim(Append(live_path_y, xy[2]))
         /\ live_path_z' = Trim(Append(live_path_z, z))

\* main.py:378-391
PollPoint(xy, z) ==
    IF Abs(xy[1]) > MAX_OFFSET \/ Abs(xy[2]) > MAX_OFFSET \/ Abs(z) > MAX_Z_OFFSET
    THEN /\ last_poll' = "unreasonable"
         /\ UNCHANGED <<live_path_x, live_path_y, live_path_z, appends>>
    ELSE /\ last_poll' = "appended"
         /\ appends' = IF appends <= MAX_PATH THEN appends + 1 ELSE appends
         /\ live_path_x' = Trim(Append(live_path_x, xy[1]))
         /\ live_path_y' = Trim(Append(live_path_y, xy[2]))
         /\ live_path_z' = Trim(Append(live_path_z, z))

\* main.py:372-375, 448-449
PollFix(pos) ==
    IF pos.ok
    THEN PollPoint(geo_to_xy(OBSERVER_LAT, OBSERVER_LON, pos.latitude, pos.longitude),
                   pos.altitude - OBSERVER_ALT)
    ELSE /\ last_poll' = "nofix"
         /\ UNCHANGED <<live_path_x, live_path_y, live_path_z, appends>>

\* PollSize reading the file whatever its size
PollSize_always(current_file_size) ==
    /\ last_file_size' = current_file_size
    /\ latest_pos' = get_last_valid_position(file)
    /\ PollFix(latest_pos')

\* main.py:367-371
PollSize(current_file_size) ==
    IF current_file_size # last_file_size
    THEN /\ last_file_size' = current_file_size
         /\ latest_pos' = get_last_valid_position(file)
         /\ PollFix(latest_pos')
    ELSE /\ last_poll' = "same"
         /\ UNCHANGED <<last_file_size, latest_pos, live_path_x, live_path_y, live_path_z,
                        appends>>

\* main.py:363-455, one iteration of the loop
Poll ==
    /\ pc = "live"
    /\ size_checks' = IF size_checks < MaxChecks THEN size_checks + 1 ELSE size_checks
    /\ IF file.exists
       THEN PollSize(FileSize(file.raw_lines))
       ELSE /\ last_poll' = "missing"
            /\ UNCHANGED <<last_file_size, latest_pos, live_path_x, live_path_y, live_path_z,
                           appends>>
    /\ UNCHANGED <<file, pc, lines, idx, line, parsed, positions, skipped_count, sleeps>>

\* the receiver (or anyone) replaces the content of the log; the position
\* it logs varies only while the window holds fewer than MaxVaried points
WriteFile(f) ==
    /\ pc = "live"
    /\ f # file
    /\ (f = File(<<L_NEAR>>) => Len(live_path_x) < MaxVaried)
    /\ file' = f
    /\ last_poll' = "none"
    /\ UNCHANGED <<pc, batchVars, last_file_size, live_path_x, live_path_y, live_path_z,
                   size_checks, sleeps, appends>>

InitLive == file \in LiveFiles /\ InitVars

\* main.py:345-360, the call of live_gnss_playback up to its loop
StartLive ==
    /\ pc = "start"
    /\ pc' = "live"
    /\ last_file_size' = 0
    /\ live_path_x' = <<>>
    /\ live_path_y' = <<>>
    /\ live_path_z' = <<>>
    /\ UNCHANGED <<file, batchVars, size_checks, sleeps, last_poll, appends>>

NextLive ==
    \/ StartLive
    \/ Poll
    \/ \E f \in LiveFiles : WriteFile(f)

SpecLive == InitLive /\ [][NextLive]_vars

---------------------------------------------------------------------------
(* Properties of the resolver, the batch loop, the validator and the       *)
(* parser (specification Spec).                                            *)

MaxOf(S) == CHOOSE m \in S : \A x \in S : x <= m

Loaded == pc \in {"loaded", "exit"}

\* the indices of the lines the validator accepts
ValidIdx(ls) == {i \in 1..Len(ls) : is_valid_gngga_line(ls[i])}

\* the indices of the lines that are accepted and parsed
QualIdx(ls) == {i \in 1..Len(ls) : is_valid_gngga_line(ls[i]) /\ parse_gngga(ls[i]).ok}

C1OrigAt(ls, V) ==
    (V # {} /\ ~parse_gngga(ls[MaxOf(V)]).ok) => latest_pos = None

\* C1 as stated: when the most recent line the validator accepts is rejected
\* by the parser, get_last_valid_position returns none, whatever the earlier
\* lines are (the scan stops there).
C1_StopsAtValidatorValid ==
    pc = "resolved" =>
        C1OrigAt(read_latest_gnss_data(file), ValidIdx(read_latest_gnss_data(file)))

C1Earlier(ls, last) == {i \in QualIdx(ls) : i < last}

C1AmendedAt(ls, E) ==
    IF E = {} THEN latest_pos = None
    ELSE latest_pos.ok /\ latest_pos = parse_gngga(ls[MaxOf(E)])

C1AmendedFor(ls, V) ==
    (V # {} /\ ~parse_gngga(ls[MaxOf(V)]).ok) => C1AmendedAt(ls, C1Earlier(ls, MaxOf(V)))

\* C1 amended: the scan goes on past a line the validator accepts and the
\* parser rejects: when the most recent accepted line is rejected by the
\* parser, the result is the Fix of the nearest earlier line that is accepted
\* and parsed, and none only when there is no such earlier line.
C1_ScanContinuesPastParserFailure ==
    pc = "resolved" =>
        C1AmendedFor(read_latest_gnss_data(file), ValidIdx(read_latest_gnss_data(file)))

\* C1 witness: the last accepted line (raw latitude 8999) does not parse, an
\* earlier line is good, and the resolver has returned the earlier line's Fix
C1_Witness ==
    /\ pc = "resolved"
    /\ file.raw_lines = <<L_EX, L_MIN60>>
    /\ latest_pos.ok
    /\ latest_pos.utc_time = "123456.00"

C2At(ls, Q) ==
    IF Q = {} THEN latest_pos = None
    ELSE latest_pos.ok /\ latest_pos = parse_gngga(ls[MaxOf(Q)])

\* C2: get_last_valid_position returns the Fix of the candidate line closest
\* to the end of the file that the validator accepts and the parser parses,
\* and none exactly when no candidate line is both.
C2_LatestIsLastQualifying ==
    pc = "resolved" =>
        C2At(read_latest_gnss_data(file), QualIdx(read_latest_gnss_data(file)))

\* C2 witness: two good lines followed by one the validator rejects; the
\* resolver has returned the second good line's Fix
C2_Witness ==
    /\ pc = "resolved"
    /\ file.raw_lines = <<L_EX, L_SE, L_NAN>>
    /\ latest_pos.ok
    /\ latest_pos.utc_time = "123457.00"

\* the raw lines of the file that pass the reader's filter and parse
KeptIdx(raw) ==
    {k \in 1..Len(raw) : KeepLine(strip(raw[k])) /\ parse_gngga(strip(raw[k])).ok}

Rank(K, k) == Cardinality({j \in K : j <= k})

C3At(raw, K) ==
    /\ Len(positions) = Cardinality(K)
    /\ \A k \in K : positions[Rank(K, k)] = parse_gngga(strip(raw[k]))

\* C3: when the batch loop is over, positions is exactly the Fixes of the
\* lines of the file that pass the reader's filter and parse, in file order:
\* none dropped, duplicated or reordered, whatever bad lines lie between.
C3_PositionsAreTheGoodLinesInOrder ==
    Loaded => idx = Len(lines) + 1 /\ C3At(file.raw_lines, KeptIdx(file.raw_lines))

\* C3 witness: a good line, a noise line, a good line: both Fixes, in order
C3_Witness ==
    /\ pc = "loaded"
    /\ file.raw_lines = <<L_SE, L_NOFIX, L_EX>>
    /\ Len(positions) = 2
    /\ positions[1].utc_time = "123457.00"
    /\ positions[2].utc_time = "123456.00"

\* C4 as stated: the skipped count is the number of lines of the file minus
\* the number of Fixes.
C4_SkippedIsTotalMinusValid ==
    Loaded => skipped_count = Len(file.raw_lines) - Len(positions)

CandidateIdx(raw) == {k \in 1..Len(raw) : KeepLine(strip(raw[k]))}

\* C4 amended: the skipped count is the number of candidate lines (the lines
\* that pass the reader's filter) minus the number of Fixes; a line the
\* reader drops is not counted.
C4_SkippedIsCandidatesMinusValid ==
    Loaded => /\ skipped_count = Cardinality(CandidateIdx(file.raw_lines)) - Len(positions)
              /\ skipped_count <= Len(file.raw_lines) - Len(positions)

\* C4 witness: one good line, one noise line the reader drops, one candidate
\* line that does not parse: one Fix, one skipped, three lines
C4_Witness ==
    /\ pc = "loaded"
    /\ file.raw_lines = <<L_EX, L_NOFIX, L_NAN>>
    /\ Len(positions) = 1
    /\ skipped_count = 1

InBounds(r) ==
    IF r.ok
    THEN /\ -5400000 <= r.latitude /\ r.latitude <= 5400000
         /\ -10800000 <= r.longitude /\ r.longitude <= 10800000
         /\ -1000000 <= r.altitude /\ r.altitude <= 10000000
    ELSE r = None

\* C5: whatever parse_gngga returns is none or a Fix with latitude in
\* [-90, 90] degrees, longitude in [-180, 180] degrees and altitude in
\* [-1000, 10000] m; so is every Fix the loop and the resolver hand on.
C5_FixInBounds ==
    /\ InBounds(parsed)
    /\ InBounds(latest_pos)
    /\ \A i \in 1..Len(positions) : InBounds(positions[i])

\* C5 witness: the validator accepts raw latitude 8999 (89 degrees, 99
\* minutes) and the parser has returned none for it
C5_Witness ==
    /\ pc = "called"
    /\ line = L_MIN60
    /\ is_valid_gngga_line(line)
    /\ parsed = None

C6Values(lat_val, lon_val, alt_val) ==
    /\ lat_val.ok /\ ~lat_val.nan /\ 0 < lat_val.v /\ lat_val.v <= 9000000
    /\ lon_val.ok /\ ~lon_val.nan /\ 0 < lon_val.v /\ lon_val.v <= 18000000
    /\ alt_val.ok /\ ~alt_val.nan /\ -1000000 <= alt_val.v /\ alt_val.v <= 10000000

C6Parts(parts) ==
    /\ Len(parts) >= 15
    /\ \A k \in {2, 3, 4, 5, 9} : Part(parts, k) # ""
    /\ C6Values(float(Part(parts, 2)), float(Part(parts, 4)), float(Part(parts, 9)))

IsZero(x) == x.ok /\ ~x.nan /\ x.v = 0

C6ZeroRaw(parts) ==
    Len(parts) >= 5 /\ (IsZero(float(Part(parts, 2))) \/ IsZero(float(Part(parts, 4))))

C6For(valid, parts) ==
    /\ valid => startswith(line, PREFIX) /\ C6Parts(parts)
    /\ C6ZeroRaw(parts) => ~valid /\ ~parsed.ok
    /\ parsed.ok => valid

\* C6: a line the validator accepts starts with the prefix, has at least 15
\* fields, non-empty fields 2, 3, 4, 5 and 9, raw latitude in (0, 9000], raw
\* longitude in (0, 18000] and altitude in [-1000, 10000]; a line whose raw
\* latitude or longitude is zero is rejected and yields no Fix.
C6_ValidatedLineInvariant == C6For(is_valid_gngga_line(line), split(line))

\* C6 witness: the line with raw latitude 0000.000 and every other field
\* good has been handed to the parser, which returned none
C6_Witness ==
    /\ pc = "called"
    /\ line = L_ZERO
    /\ C6ZeroRaw(split(line))
    /\ parsed = None

\* degrees = floor(raw / 100), minutes = raw - degrees * 100,
\* value = degrees + minutes / 60, in 1/60000 degree, raw in thousandths
RefDegrees(raw, hemisphere) ==
    LET degrees == raw \div 100000
        minutes == raw - degrees * 100000
        value == degrees * 60000 + minutes
    IN  IF hemisphere = "S" \/ hemisphere = "W" THEN 0 - value ELSE value

C7Parts(parts) ==
    /\ parsed.latitude = RefDegrees(float(Part(parts, 2)).v, Part(parts, 3))
    /\ parsed.longitude = RefDegrees(float(Part(parts, 4)).v, Part(parts, 5))
    /\ parsed.altitude = float(Part(parts, 9)).v
    /\ parsed.utc_time = Part(parts, 1)

\* C7: a Fix carries the reference degrees-minutes conversion of fields 2
\* and 4, negated exactly for hemisphere S or W, field 9 as its altitude and
\* field 1 as its time; the example line gives 39 deg 11.766 min north
\* (39.1961), 77 deg 15.408 min west (-77.2568) and 130.0 m.
C7_ConversionMatchesReference ==
    /\ parsed.ok => C7Parts(split(line))
    /\ line = L_EX =>
          parsed = [ok |-> TRUE, utc_time |-> "123456.00", latitude |-> 39 * 60000 + 11766,
                    longitude |-> 0 - (77 * 60000 + 15408), altitude |-> 130000]

\* C7 witness: the example line has been parsed into a Fix, west negative
C7_Witness ==
    /\ line = L_EX
    /\ parsed.ok
    /\ parsed.longitude < 0

---------------------------------------------------------------------------
(* Properties of live mode (specification SpecLive).                       *)

C8Lengths ==
    /\ Len(live_path_x) <= MAX_PATH
    /\ Len(live_path_y) = Len(live_path_x)
    /\ Len(live_path_z) = Len(live_path_x)

\* new is old with one point appended, the oldest dropped if old was full
Fifo(old, new) ==
    /\ new # <<>>
    /\ new = IF Len(old) < 1000 THEN Append(old, new[Len(new)])
             ELSE Append(Tail(old), new[Len(new)])

\* a loop iteration that appends a point
C8AppendStep ==
    (file' = file /\ last_poll' = "appended") =>
        /\ Fifo(live_path_x, live_path_x')
        /\ Fifo(live_path_y, live_path_y')
        /\ Fifo(live_path_z, live_path_z')

\* C8: the three lists of the live path always have the same length, at most
\* 1000, and an iteration that appends a point drops exactly the oldest
\* point of a full window and no point otherwise (first in, first out).
C8_WindowBoundedFifo == [](C8Lengths) /\ [][C8AppendStep]_vars

\* C8 witness: point 1001 has been appended and the window holds 1000
C8_Witness ==
    /\ appends = MAX_PATH + 1
    /\ last_poll = "appended"
    /\ Len(live_path_x) = MAX_PATH
    /\ Len(live_path_z) = MAX_PATH

\* C9 as stated: between two consecutive size checks the loop sleeps, so the
\* size checks are at most one ahead of the sleeps.
C9_SleepsBetweenSizeChecks == size_checks <= sleeps + 1

\* a loop iteration: the only steps of SpecLive that leave the file alone
\* once the loop runs
C10PollStep ==
    (file' = file /\ pc = "live") =>
        IF file.exists /\ FileSize(file.raw_lines) # last_file_size
        THEN /\ last_file_size' = FileSize(file.raw_lines)
             /\ last_poll' \in {"nofix", "unreasonable", "appended"}
        ELSE /\ last_poll' \in {"same", "missing"}
             /\ UNCHANGED <<last_file_size, latest_pos, live_path_x, live_path_y, live_path_z>>

\* C10: an iteration that finds the file missing or its size equal to the
\* recorded size reads nothing and leaves the recorded size, the latest fix
\* and the window as they are, whatever the content of the file; an
\* iteration that finds another size records it and reads the file, whether
\* or not a fix comes out.
C10_ReadOnlyOnSizeChange == [][C10PollStep]_vars

\* C10 witness: the log held L_NEAR and was read; it was rewritten to L_EX,
\* of the same size, and the next iteration took the size-unchanged path: the
\* fix and the window are still those of L_NEAR
C10_Witness ==
    /\ file = File(<<L_EX>>)
    /\ last_file_size = FileSize(<<L_EX>>)
    /\ last_poll = "same"
    /\ latest_pos.utc_time = "123505.00"
    /\ Len(live_path_x) = 1
    /\ live_path_x[1] # 0

\* east, north and vertical offset (mm) within 1000 m, 1000 m and 100 m
C11InLimits(x, y, z) ==
    /\ -1000000 <= x /\ x <= 1000000
    /\ -1000000 <= y /\ y <= 1000000
    /\ -100000 <= z /\ z <= 100000

\* the newest point of the window is within the limits
C11Newest ==
    live_path_x # <<>> =>
        C11InLimits(live_path_x[Len(live_path_x)], live_path_y[Len(live_path_y)],
                    live_path_z[Len(live_path_z)])

\* the fix projects outside the limits
C11Outside(pos, xy) == ~C11InLimits(xy[1], xy[2], pos.altitude - OBSERVER_ALT)

\* the iteration reads the file and the fix it resolves projects outside
C11ReadsOutside ==
    /\ file.exists
    /\ FileSize(file.raw_lines) # last_file_size
    /\ latest_pos'.ok
    /\ C11Outside(latest_pos',
                  geo_to_xy(OBSERVER_LAT, OBSERVER_LON, latest_pos'.latitude,
                            latest_pos'.longitude))

\* a loop iteration leaves the window alone or appends one point to it
C11PollStep ==
    (file' = file /\ pc = "live") =>
        /\ \/ UNCHANGED <<live_path_x, live_path_y, live_path_z>>
           \/ /\ Fifo(live_path_x, live_path_x')
              /\ Fifo(live_path_y, live_path_y')
              /\ Fifo(live_path_z, live_path_z')
        /\ C11ReadsOutside => UNCHANGED <<live_path_x, live_path_y, live_path_z>>

\* C11: a point enters the window only as its newest point, one per loop
\* iteration at most, and the newest point is always within 1000 m east and
\* north and 100 m vertically of the observer, so every point the window
\* ever holds is; an iteration whose fix projects outside these limits
\* leaves the window unchanged.
C11_WindowPointsWithinLimits == [](C11Newest) /\ [][C11PollStep]_vars

\* C11 witness: the window holds the point of L_NEAR; the log then held
\* L_HIGH, 370 m above the observer, and the iteration that read it has
\* appended nothing
C11_Witness ==
    /\ file = File(<<L_HIGH>>)
    /\ last_poll = "unreasonable"
    /\ latest_pos.ok
    /\ latest_pos.altitude = 500000
    /\ Len(live_path_x) = 1
    /\ live_path_z = <<1500>>

=============================================================================
